---------------------------- MODULE Spec2Model ----------------------------
(***************************************************************************)
(* MailHook: an SMTP server that turns each accepted recipient of an       *)
(* incoming message into one webhook POST and one row of the email_logs    *)
(* table, next to a web API that administers hooks and custom domains in   *)
(* the same SQLite database.                                               *)
(*                                                                         *)
(* Strings whose case or structure the code inspects (addresses, domains)  *)
(* are sequences of one-character strings.  A JavaScript value that may be *)
(* undefined or null is a sequence of length 0 (absent) or 1 (present).    *)
(***************************************************************************)
EXTENDS Naturals, Sequences, FiniteSets

(***************************************************************************)
(* Bounds of the model.                                                    *)
(***************************************************************************)
MaxRcpt ==
    2

MaxHooks ==
    2

\* Hexadecimal digits of a digest (64 for the SHA-256 of the code).
DigestLen ==
    3

(***************************************************************************)
(* Optional values and JavaScript truthiness.                              *)
(***************************************************************************)
None ==
    << >>

Some(v) ==
    << v >>

\* x || null for an optional string: "", undefined and null become null.
StrOrNull(x) ==
    IF x = None THEN None
    ELSE IF x[1] = "" THEN None
    ELSE x

\* x || null for an optional number: 0, undefined and null become null.
NumOrNull(x) ==
    IF x = None THEN None
    ELSE IF x[1] = 0 THEN None
    ELSE x

\* x || null for an optional string held as a character sequence.
SeqOrNull(x) ==
    IF x = None THEN None
    ELSE IF x[1] = << >> THEN None
    ELSE x

\* x || '' for an optional string held as a character sequence.
SeqOrEmpty(x) ==
    IF x = None THEN << >> ELSE x[1]

(***************************************************************************)
(* Strings as character sequences.                                         *)
(***************************************************************************)
ToLowerChar(c) ==
    CASE c = "A" -> "a"
      [] c = "B" -> "b"
      [] c = "M" -> "m"
      [] c = "C" -> "c"
      [] OTHER -> c

\* String.prototype.toLowerCase
toLowerCase(s) ==
    [i \in DOMAIN s |-> ToLowerChar(s[i])]

\* Index of the first "@" at or after position i, or Len(s) + 1.
RECURSIVE NextAt(_, _)
NextAt(s, i) ==
    IF i > Len(s) THEN Len(s) + 1
    ELSE IF s[i] = "@" THEN i
    ELSE NextAt(s, i + 1)

\* s.split('@')[1]: the text between the first and the second "@";
\* undefined when s holds no "@".
SplitAt1(s) ==
    LET first == NextAt(s, 1)
    IN  IF first > Len(s) THEN None
        ELSE Some(SubSeq(s, first + 1, NextAt(s, first + 1) - 1))

\* Array.prototype.includes
Includes(arr, x) ==
    \E i \in DOMAIN arr : arr[i] = x

\* `${username}@${domain}`
Email(username, domain) ==
    username \o << "@" >> \o domain

(***************************************************************************)
(* The values the environment supplies.                                    *)
(***************************************************************************)
\* "m" stands for mailhook.local, "c" for a domain added through the web
\* API, "o" for a domain nobody configured.
DomainM ==
    << "m" >>

DomainC ==
    << "c" >>

DomainO ==
    << "o" >>

\* Addresses a sending MTA proposes in RCPT TO.
RcptAddrs ==
    { Email(<< "a", "l" >>, << "M" >>), Email(<< "b", "o" >>, DomainM),
      Email(<< "a", "l" >>, DomainC), Email(<< "a", "l" >>, DomainO) }

\* Envelope senders.
Senders ==
    { Email(<< "s" >>, DomainO) }

\* parsed.subject of a parsed message.
Subjects ==
    { Some(<< "h", "i" >>) }

\* Request bodies of POST /api/hooks: username and domain, webhookSecret.
HookNames ==
    { << << "a", "l" >>, DomainM >>, << << "b", "o" >>, DomainM >>,
      << << "B", "o" >>, DomainM >> }

Secrets ==
    { Some(<< "k" >>) }

\* webhookSecret of the request bodies of PATCH /api/hooks/:id: left out.
PatchSecrets ==
    { None }

Urls ==
    { "http://u" }

\* Request bodies of POST /api/domains.
NewDomains ==
    { DomainC }

\* Whether the SMTP library's callback raises when it is invoked without an
\* error: it does not.
CallbackRaises ==
    { FALSE }

\* nanoid(): identifiers, per table.
HookIdNames ==
    << "h1", "h2", "h3", "h4", "h5", "h6", "h7", "h8" >>

LogIdNames ==
    << "l1", "l2", "l3", "l4", "l5", "l6", "l7", "l8", "l9", "l10", "l11",
       "l12", "l13", "l14" >>

DomainIdNames ==
    << "d1", "d2" >>

(***************************************************************************)
(* State.                                                                  *)
(***************************************************************************)
VARIABLES
    hooks,          \* rows of email_hooks
    customDomains,  \* rows of custom_domains
    logs,           \* rows of email_logs
    pc,             \* where the transaction stands
    mailFrom,       \* session.envelope.mailFrom.address
    rcptTo,         \* session.envelope.rcptTo, addresses as received
    parsed,         \* result of simpleParser: [subject]
    hook,           \* processEmailForRecipient's local `hook` across the await
    acks,           \* arguments the onData callback was invoked with, in order
    rcptReply,      \* the answer to the last RCPT TO, with what decided it
    trace,          \* history: one entry per processEmailForRecipient call
    sent,           \* a request triggerWebhook built, with the secret it used
    again,          \* a request of another call of triggerWebhook, likewise
    received,       \* body and signature header as they reach a receiver
    verified,       \* the receiver's call of verifyWebhookSignature
    reply           \* the last response of the hook API: [code, body]

vars ==
    << hooks, customDomains, logs, pc, mailFrom, rcptTo, parsed, hook, acks,
       rcptReply, trace, sent, again, received, verified, reply >>

sigVars ==
    << sent, again, received, verified >>

dbVars ==
    << hooks, customDomains, logs >>

smtpVars ==
    << pc, mailFrom, rcptTo, parsed, hook, acks, rcptReply, trace >>

(***************************************************************************)
(* Configuration.                                                          *)
(***************************************************************************)
\* ALLOWED_DOMAINS is unset: (process.env.ALLOWED_DOMAINS ||
\* 'mailhook.local').split(',').map(d => d.trim()).  The SMTP server reads
\* this list under the name appConfig.allowedDomains.  The configuration
\* module that exports getAllowedDomains keeps the list under the name
\* defaultDomains and defines no allowedDomains, so that onRcptTo would
\* raise for every address; the model follows the module that defines the
\* property the SMTP server reads.
allowedDomains ==
    << DomainM >>

defaultDomains ==
    << DomainM >>

\* customDomainsRepo.getAllVerifiedDomains
getAllVerifiedDomains ==
    { d.domain : d \in { r \in customDomains : r.is_verified } }

\* getAllowedDomains(): [...defaultDomains, ...verified custom domains],
\* as the set of its elements.
getAllowedDomains ==
    { defaultDomains[i] : i \in DOMAIN defaultDomains } \cup getAllVerifiedDomains

(***************************************************************************)
(* Repositories.                                                           *)
(***************************************************************************)
\* emailHooksRepo.findByEmail: SELECT ... WHERE email = ? compares TEXT
\* byte for byte.  email is UNIQUE, so at most one row matches.
findByEmail(email) ==
    IF \E h \in hooks : h.email = email
    THEN Some(CHOOSE h \in hooks : h.email = email)
    ELSE None

\* emailHooksRepo.findById
findById(id) ==
    IF \E h \in hooks : h.id = id
    THEN Some(CHOOSE h \in hooks : h.id = id)
    ELSE None

\* FOREIGN KEY (hook_id) REFERENCES email_hooks(id): an email_logs row can
\* be inserted only while its parent row exists (better-sqlite3 opens every
\* database with foreign key enforcement on).
ForeignKeyOk(hookId, hookRows) ==
    \E h \in hookRows : h.id = hookId

\* The row emailLogsRepo.create binds to its INSERT statement.
LogRow(id, data) ==
    [ id |-> id,
      hook_id |-> data.hookId,
      from_address |-> data.fromAddress,
      subject |-> SeqOrNull(data.subject),
      status |-> data.status,
      error |-> StrOrNull(data.error),
      webhook_status_code |-> NumOrNull(data.webhookStatusCode) ]

\* emailLogsRepo.create: the INSERT either adds the row or raises
\* SqliteError and leaves the table as it was.
create(rows, id, data) ==
    IF ForeignKeyOk(data.hookId, hooks)
    THEN [ ok |-> TRUE, logs |-> rows \cup { LogRow(id, data) } ]
    ELSE [ ok |-> FALSE, logs |-> rows ]

Init ==
    /\ hooks = {}
    /\ customDomains = {}
    /\ logs = {}
    /\ pc = "idle"
    /\ mailFrom = None
    /\ rcptTo = << >>
    /\ parsed = None
    /\ hook = None
    /\ acks = << >>
    /\ rcptReply = None
    /\ trace = << >>
    /\ sent = None
    /\ again = None
    /\ received = None
    /\ verified = None
    /\ reply = None

(***************************************************************************)
(* nanoid(): an identifier no row and no transaction in progress holds.    *)
(* Which of the free ones it is makes no difference; the first one stands  *)
(* for all.                                                                *)
(***************************************************************************)
FirstFree(names, used) ==
    names[CHOOSE i \in DOMAIN names :
              /\ names[i] \notin used
              /\ \A j \in 1 .. (i - 1) : names[j] \in used]

HeldHookIds ==
    { h.id : h \in hooks }
    \cup { hook[i].id : i \in DOMAIN hook }
    \cup { trace[i].hook[1].id : i \in { j \in DOMAIN trace : trace[j].hook # None } }

HeldLogIds(rows, tr) ==
    { l.id : l \in rows }
    \cup UNION { { tr[i].rows[j].id : j \in DOMAIN tr[i].rows } : i \in DOMAIN tr }

(***************************************************************************)
(* Web API: custom domains.                                                *)
(***************************************************************************)
\* POST /api/domains
AddDomain(domain) ==
    /\ ~ \E d \in customDomains : d.domain = domain
    /\ customDomains' = customDomains \cup
           { [ id |-> FirstFree(DomainIdNames, { d.id : d \in customDomains }),
               domain |-> domain,
               is_verified |-> FALSE ] }
    /\ UNCHANGED << reply, sigVars, hooks, logs, smtpVars >>

\* POST /api/domains/:id/verify
VerifyDomain(id) ==
    /\ \E d \in customDomains : d.id = id /\ ~ d.is_verified
    /\ customDomains' =
           { IF d.id = id THEN [ d EXCEPT !.is_verified = TRUE ] ELSE d :
             d \in customDomains }
    /\ UNCHANGED << reply, sigVars, hooks, logs, smtpVars >>

\* DELETE /api/domains/:id
DeleteDomain(id) ==
    /\ \E d \in customDomains : d.id = id
    /\ customDomains' = { d \in customDomains : d.id # id }
    /\ UNCHANGED << reply, sigVars, hooks, logs, smtpVars >>

(***************************************************************************)
(* Web API: hooks.                                                         *)
(***************************************************************************)
Alnum(c) ==
    c \in { "a", "b", "l", "o", "s", "A", "B", "0", "1" }

\* /^[a-z0-9][a-z0-9._-]*[a-z0-9]$/i
ValidUsername(u) ==
    /\ Len(u) >= 2
    /\ Alnum(u[1])
    /\ Alnum(u[Len(u)])
    /\ \A i \in 2 .. (Len(u) - 1) : Alnum(u[i]) \/ u[i] \in { ".", "_", "-" }

\* POST /api/hooks
CreateHook(username, domain, webhookUrl, webhookSecret) ==
    LET email == Email(username, domain)
    IN  /\ Cardinality(hooks) < MaxHooks
        /\ domain \in getAllowedDomains
        /\ ValidUsername(username)
        /\ findByEmail(email) = None
        /\ hooks' = hooks \cup
               { [ id |-> FirstFree(HookIdNames, HeldHookIds),
                   email |-> email,
                   webhook_url |-> webhookUrl,
                   webhook_secret |-> SeqOrNull(webhookSecret),
                   is_enabled |-> TRUE ] }
        /\ UNCHANGED << reply, sigVars, customDomains, logs, smtpVars >>

\* emailHooksRepo.update with the updates PATCH /api/hooks/:id collects
\* from a body holding any of webhookSecret and isEnabled.
UpdatedRow(h, webhookSecret, isEnabled) ==
    [ h EXCEPT
        !.webhook_secret =
            IF webhookSecret = None THEN @ ELSE SeqOrNull(webhookSecret),
        !.is_enabled =
            IF isEnabled = None THEN @ ELSE isEnabled[1] ]

\* PATCH /api/hooks/:id (requests that change nothing are left out)
UpdateHook(id, webhookSecret, isEnabled) ==
    /\ findById(id) # None
    /\ UpdatedRow(findById(id)[1], webhookSecret, isEnabled) # findById(id)[1]
    /\ hooks' =
           { IF h.id = id THEN UpdatedRow(h, webhookSecret, isEnabled) ELSE h :
             h \in hooks }
    /\ UNCHANGED << reply, sigVars, customDomains, logs, smtpVars >>

\* DELETE /api/hooks/:id; email_logs rows go with their hook
\* (FOREIGN KEY ... ON DELETE CASCADE).
DeleteHook(id) ==
    /\ findById(id) # None
    /\ hooks' = { h \in hooks : h.id # id }
    /\ logs' = { l \in logs : l.hook_id # id }
    /\ UNCHANGED << reply, sigVars, customDomains, smtpVars >>

(***************************************************************************)
(* SMTP server: envelope.                                                  *)
(***************************************************************************)
\* onMailFrom: every sender is accepted.
MailFrom(address) ==
    /\ pc = "idle"
    /\ mailFrom' = Some(address)
    /\ pc' = "rcpt"
    /\ UNCHANGED << reply, sigVars, dbVars, rcptTo, parsed, hook, acks, rcptReply, trace >>

\* onRcptTo's decision: TRUE when it calls back without an error.
onRcptTo(address) ==
    LET recipientEmail == toLowerCase(address)
        domain == SplitAt1(recipientEmail)
    IN  /\ domain # None
        /\ Includes(allowedDomains, domain[1])

\* What the SMTP library does with an accepted address: one that is already
\* in the envelope, up to case, overwrites its entry, any other is appended.
Accept(envelope, address) ==
    IF \E i \in DOMAIN envelope : toLowerCase(envelope[i]) = toLowerCase(address)
    THEN [ i \in DOMAIN envelope |->
             IF toLowerCase(envelope[i]) = toLowerCase(address)
             THEN address ELSE envelope[i] ]
    ELSE Append(envelope, address)

\* RCPT TO: the server appends the address to session.envelope.rcptTo when
\* onRcptTo accepts it, and answers the command with an error otherwise.
\* rcptReply keeps the answer, and whether getAllowedDomains() held the
\* domain when it was given.
RcptTo(address) ==
    /\ pc = "rcpt"
    /\ Len(rcptTo) < MaxRcpt
    /\ rcptTo' = IF onRcptTo(address) THEN Accept(rcptTo, address) ELSE rcptTo
    /\ rcptReply' = Some(
           [ address |-> address,
             accepted |-> onRcptTo(address),
             current |-> SplitAt1(toLowerCase(address))[1] \in getAllowedDomains ])
    /\ UNCHANGED << reply, sigVars, dbVars, pc, mailFrom, parsed, hook, acks, trace >>

\* DATA: onData calls handleIncomingEmail, which awaits simpleParser.
Data ==
    /\ pc = "rcpt"
    /\ Len(rcptTo) >= 1
    /\ pc' = "parsing"
    /\ rcptReply' = None
    /\ UNCHANGED << reply, sigVars, dbVars, mailFrom, rcptTo, parsed, hook, acks, trace >>

(***************************************************************************)
(* Webhook: the request and its signature.                                 *)
(*                                                                         *)
(* crypto.createHmac('sha256', key).update(body).digest('hex') is a keyed  *)
(* digest of fixed length written in hexadecimal.  The model keeps its     *)
(* shape: the key is absorbed first, the body after it, every character    *)
(* changes the running value, and the result is reduced to DigestLen       *)
(* hexadecimal digits.                                                     *)
(***************************************************************************)
Alphabet ==
    << "a", "b", "c", "h", "i", "j", "k", "l", "m", "o", "s", "@", "{", "}",
       ",", "|", "M", "B", "A", ":", "0", "1" >>

CharCode(c) ==
    CHOOSE i \in DOMAIN Alphabet : Alphabet[i] = c

HexDigits ==
    << "0", "1", "2", "3", "4", "5", "6", "7", "8", "9", "a", "b", "c", "d",
       "e", "f" >>

\* hash.update(data) from character i on, h being the running value.
RECURSIVE update(_, _, _)
update(h, data, i) ==
    IF i > Len(data) THEN h
    ELSE update((h * 37 + CharCode(data[i])) % (16 ^ DigestLen), data, i + 1)

\* digest('hex')
digest(h) ==
    [ k \in 1 .. DigestLen |->
        HexDigits[((h \div (16 ^ (DigestLen - k))) % 16) + 1] ]

\* crypto.createHmac('sha256', key).update(body).digest('hex'); "|" stands
\* for the end of the key block.
createHmac(key, body) ==
    digest(update(update(update(5, key, 1), << "|" >>, 1), body, 1))

\* What simpleParser makes of the raw messages of the model.  The message
\* with a Subject header has a From header (another address than the
\* envelope sender), a text part, a header that occurs twice and an
\* attachment; the message without one has none of them.
simpleParser(subject) ==
    IF subject = None
    THEN [ subject |-> None, from |-> None, text |-> None, html |-> None,
           headers |-> << >>, attachments |-> << >> ]
    ELSE [ subject |-> subject,
           from |-> Some([ address |-> << "h", "@", "o" >>, name |-> << "h" >> ]),
           text |-> Some(<< "h", "i" >>),
           html |-> None,
           headers |-> << [ key |-> << "a" >>, value |-> << "0" >> ],
                          [ key |-> << "b" >>, value |-> << "0" >> ],
                          [ key |-> << "a" >>, value |-> << "1" >> ] >>,
           attachments |-> << [ filename |-> << "a" >>,
                                contentType |-> << "c" >>,
                                size |-> 1,
                                content |-> << "b" >> ] >> ]

\* Object.fromEntries(entries) from entry i on: an object holds each key
\* once, at the place of its first entry and with the value of its last.
RECURSIVE fromEntries(_, _)
fromEntries(entries, i) ==
    IF i > Len(entries) THEN << >>
    ELSE IF \E j \in 1 .. (i - 1) : entries[j].key = entries[i].key
    THEN fromEntries(entries, i + 1)
    ELSE LET last == CHOOSE j \in i .. Len(entries) :
                         /\ entries[j].key = entries[i].key
                         /\ \A k \in (j + 1) .. Len(entries) :
                                entries[k].key # entries[i].key
         IN  << [ key |-> entries[i].key, value |-> entries[last].value ] >>
                 \o fromEntries(entries, i + 1)

\* A payload that carries the attachments as the parser returned them,
\* content included.
emailData_SendsContent(msg, fromAddress, toAddress) ==
    [ from |-> [ address |-> IF msg.from # None THEN msg.from[1].address
                             ELSE fromAddress,
                 name |-> IF msg.from # None THEN msg.from[1].name ELSE << >> ],
      to |-> toAddress,
      subject |-> SeqOrEmpty(msg.subject),
      text |-> SeqOrEmpty(msg.text),
      html |-> SeqOrEmpty(msg.html),
      headers |-> fromEntries(msg.headers, 1),
      attachments |-> msg.attachments ]

\* const emailData: the payload of the webhook.
emailData(msg, fromAddress, toAddress) ==
    [ from |-> [ address |-> IF msg.from # None /\ msg.from[1].address # << >>
                             THEN msg.from[1].address
                             ELSE fromAddress,
                 name |-> IF msg.from # None THEN msg.from[1].name ELSE << >> ],
      to |-> toAddress,
      subject |-> SeqOrEmpty(msg.subject),
      text |-> SeqOrEmpty(msg.text),
      html |-> SeqOrEmpty(msg.html),
      headers |-> fromEntries(msg.headers, 1),
      attachments |->
          [ i \in DOMAIN msg.attachments |->
              [ filename |-> msg.attachments[i].filename,
                contentType |-> msg.attachments[i].contentType,
                size |-> msg.attachments[i].size ] ] ]

\* The text of a list of headers, and of a list of attachments, from entry
\* i on; a number is written in digits, and an attachment is written with
\* all the fields it has.
RECURSIVE stringifyHeaders(_, _)
stringifyHeaders(headers, i) ==
    IF i > Len(headers) THEN << >>
    ELSE headers[i].key \o << ":" >> \o headers[i].value \o << "," >>
             \o stringifyHeaders(headers, i + 1)

RECURSIVE stringifyAttachments(_, _)
stringifyAttachments(attachments, i) ==
    IF i > Len(attachments) THEN << >>
    ELSE << "{" >> \o attachments[i].filename \o << "," >>
             \o attachments[i].contentType \o << "," >>
             \o << HexDigits[attachments[i].size + 1] >>
             \o (IF "content" \in DOMAIN attachments[i]
                 THEN << "," >> \o attachments[i].content ELSE << >>)
             \o << "}" >>
             \o stringifyAttachments(attachments, i + 1)

\* JSON.stringify(emailData): the fields in their order, each delimited.
stringify(data) ==
    << "{" >> \o data.from.address \o << "," >> \o data.from.name
        \o << "," >> \o data.to
        \o << "," >> \o data.subject
        \o << "," >> \o data.text
        \o << "," >> \o data.html
        \o << ",", "{" >> \o stringifyHeaders(data.headers, 1) \o << "}" >>
        \o << ",", "{" >> \o stringifyAttachments(data.attachments, 1)
        \o << "}", "}" >>

\* A triggerWebhook that signs whatever secret it is given, the absent
\* one as the empty key.
triggerWebhook_AlwaysSigns(webhookUrl, webhookSecret, data) ==
    [ url |-> webhookUrl,
      data |-> data,
      body |-> stringify(data),
      signature |-> Some(createHmac(SeqOrEmpty(webhookSecret), stringify(data))) ]

\* A triggerWebhook that computes the signature before the recipient is
\* put into the payload.
triggerWebhook_SignsWithoutTo(webhookUrl, webhookSecret, data) ==
    [ url |-> webhookUrl,
      data |-> data,
      body |-> stringify(data),
      signature |->
          IF SeqOrNull(webhookSecret) # None
          THEN Some(createHmac(webhookSecret[1],
                               stringify([ data EXCEPT !.to = << >> ])))
          ELSE None ]

\* triggerWebhook up to its call of ofetch: the request it hands over, a
\* string body that ofetch sends as it is.  signature is the
\* X-MailHook-Signature header, set if (webhookSecret); data keeps the
\* payload the body was made of.
triggerWebhook(webhookUrl, webhookSecret, data) ==
    [ url |-> webhookUrl,
      data |-> data,
      body |-> stringify(data),
      signature |->
          IF SeqOrNull(webhookSecret) # None
          THEN Some(createHmac(webhookSecret[1], stringify(data)))
          ELSE None ]

\* crypto.timingSafeEqual(Buffer.from(a), Buffer.from(b)): raises
\* ERR_CRYPTO_TIMING_SAFE_EQUAL_LENGTH for inputs of different byte length.
timingSafeEqual(a, b) ==
    IF Len(a) # Len(b) THEN "threw"
    ELSE IF a = b THEN "true"
    ELSE "false"

\* A verification that signs the empty body.
verifyWebhookSignature_IgnoresBody(body, signature, secret) ==
    IF signature = None THEN "threw"
    ELSE timingSafeEqual(signature[1], createHmac(secret, << >>))

\* verifyWebhookSignature: "true", "false", or "threw" when it raises.
\* signature is the header as received, absent when there was none:
\* Buffer.from(undefined) raises a TypeError.
verifyWebhookSignature(body, signature, secret) ==
    LET expectedSignature == createHmac(secret, body)
    IN  IF signature = None THEN "threw"
        ELSE timingSafeEqual(signature[1], expectedSignature)

(***************************************************************************)
(* SMTP server: the per-recipient pipeline.                                *)
(***************************************************************************)
\* const recipients = session.envelope.rcptTo.map(r => r.address.toLowerCase())
recipients ==
    [ i \in DOMAIN rcptTo |-> toLowerCase(rcptTo[i]) ]

\* What the webhook endpoint and the network do with one POST: a response
\* with a status code and a body, or none (timeout, DNS, TLS, refused).
\* A parsed body is described by what the code reads of it: whether it is
\* an object at all, and its `status` property.
NoBody ==
    [ defined |-> FALSE, status |-> None ]

Bodies ==
    { NoBody,
      [ defined |-> TRUE, status |-> None ],
      [ defined |-> TRUE, status |-> Some(7) ] }

NoResponse ==
    [ kind |-> "none", status |-> 0, body |-> NoBody ]

HttpOutcomes ==
    { [ kind |-> "response", status |-> 200, body |-> b ] : b \in Bodies }
    \cup { [ kind |-> "response", status |-> 500, body |-> NoBody ] }
    \cup { NoResponse }

\* A client that resolves with whatever response it gets, error statuses
\* included.
ofetch_IgnoreResponseError(o) ==
    IF o.kind = "response"
    THEN [ ok |-> TRUE, value |-> o.body,
           error |-> [ message |-> "", response |-> None ] ]
    ELSE [ ok |-> FALSE, value |-> NoBody,
           error |-> [ message |-> "fetch failed", response |-> None ] ]

\* await ofetch(webhookUrl, {method: 'POST', ...}): resolves to the parsed
\* body of a 2xx response; rejects with a FetchError that carries the
\* response for any other status, and carries none when no response came.
ofetch(o) ==
    IF o.kind = "response" /\ o.status >= 200 /\ o.status <= 299
    THEN [ ok |-> TRUE, value |-> o.body,
           error |-> [ message |-> "", response |-> None ] ]
    ELSE [ ok |-> FALSE, value |-> NoBody,
           error |-> [ message |-> "fetch failed",
                       response |-> IF o.kind = "response"
                                    THEN Some(o.status) ELSE None ] ]

\* One entry of the history `trace`: the message the pipeline was handed,
\* the recipient, the hook the lookup returned, the request handed to
\* ofetch and the number of POSTs made for it, the webhook call ("none",
\* "pending", "done") and how it ended, the rows the pipeline inserted, and
\* whether it ended in an exception.
TraceEntry(msg, to, hk, request, call, outcome, rows, threw) ==
    [ msg |-> msg, to |-> to, hook |-> hk, request |-> request,
      posts |-> IF request = None THEN 0 ELSE 1,
      call |-> call, outcome |-> outcome, rows |-> rows, threw |-> threw ]

\* A log entry that names the author of the From header where the envelope
\* sender belongs.
LogData_FromHeader(msg, hookId, status, error, webhookStatusCode) ==
    [ hookId |-> hookId,
      fromAddress |-> IF msg.from = None THEN mailFrom[1]
                      ELSE msg.from[1].address,
      subject |-> msg.subject,
      status |-> status,
      error |-> error,
      webhookStatusCode |-> webhookStatusCode ]

\* The argument of emailLogsRepo.create.
LogData(msg, hookId, status, error, webhookStatusCode) ==
    [ hookId |-> hookId,
      fromAddress |-> mailFrom[1],
      subject |-> msg.subject,
      status |-> status,
      error |-> error,
      webhookStatusCode |-> webhookStatusCode ]

\* The not_found branch.
NotFoundData(msg) ==
    LogData(msg, "unknown", "not_found", Some("No hook configured"), None)

\* The disabled branch.
DisabledData(msg, hk) ==
    LogData(msg, hk.id, "disabled", Some("Hook is disabled"), None)

\* A pipeline that forgets to look at hook.isEnabled.
ProcessStart_NoEnabledCheck(msg, to, rows, id) ==
    LET hk == findByEmail(to)
        data == NotFoundData(msg)
        ins == create(rows, id, data)
        request == triggerWebhook(hk[1].webhook_url, hk[1].webhook_secret,
                                  emailData(msg, mailFrom[1], to))
    IN  IF hk # None
        THEN [ kind |-> "awaiting", logs |-> rows, hook |-> hk, parsed |-> msg,
               entry |-> TraceEntry(msg, to, hk, Some(request), "pending", None,
                                    << >>, FALSE) ]
        ELSE [ kind |-> IF ins.ok THEN "returned" ELSE "threw",
               logs |-> ins.logs, hook |-> None, parsed |-> msg,
               entry |-> TraceEntry(msg, to, hk, None, "none", None,
                   IF ins.ok THEN << LogRow(id, data) >> ELSE << >>,
                   ~ ins.ok) ]

\* A pipeline that fills in the default of the subject on the message
\* itself (parsed.subject = parsed.subject || '').
ProcessStart_DefaultsInPlace(msg, to, rows, id) ==
    LET hk == findByEmail(to)
        data == IF hk = None THEN NotFoundData(msg) ELSE DisabledData(msg, hk[1])
        ins == create(rows, id, data)
        request == triggerWebhook(hk[1].webhook_url, hk[1].webhook_secret,
                                  emailData(msg, mailFrom[1], to))
        left == [ msg EXCEPT !.subject = Some(SeqOrEmpty(@)) ]
    IN  IF hk # None /\ hk[1].is_enabled
        THEN [ kind |-> "awaiting", logs |-> rows, hook |-> hk, parsed |-> left,
               entry |-> TraceEntry(msg, to, hk, Some(request), "pending", None,
                                    << >>, FALSE) ]
        ELSE [ kind |-> IF ins.ok THEN "returned" ELSE "threw",
               logs |-> ins.logs, hook |-> None, parsed |-> msg,
               entry |-> TraceEntry(msg, to, hk, None, "none", None,
                   IF ins.ok THEN << LogRow(id, data) >> ELSE << >>,
                   ~ ins.ok) ]

\* processEmailForRecipient up to its first suspension: the hook lookup,
\* the not_found and disabled branches, and the request of an enabled
\* hook.  kind is "returned", "threw" or "awaiting" (the webhook call was
\* started).  id is what nanoid() returns; parsed is the message object as
\* the function leaves it, which it only reads.
ProcessStart(msg, to, rows, id) ==
    LET hk == findByEmail(to)
        data == IF hk = None THEN NotFoundData(msg) ELSE DisabledData(msg, hk[1])
        ins == create(rows, id, data)
        request == triggerWebhook(hk[1].webhook_url, hk[1].webhook_secret,
                                  emailData(msg, mailFrom[1], to))
    IN  IF hk # None /\ hk[1].is_enabled
        THEN [ kind |-> "awaiting", logs |-> rows, hook |-> hk, parsed |-> msg,
               entry |-> TraceEntry(msg, to, hk, Some(request), "pending", None,
                                    << >>, FALSE) ]
        ELSE [ kind |-> IF ins.ok THEN "returned" ELSE "threw",
               logs |-> ins.logs, hook |-> None, parsed |-> msg,
               entry |-> TraceEntry(msg, to, hk, None, "none", None,
                   IF ins.ok THEN << LogRow(id, data) >> ELSE << >>,
                   ~ ins.ok) ]

\* A loop that starts processEmailForRecipient without awaiting it: the
\* transaction is answered while the webhook call is outstanding.
RECURSIVE ProcessFrom_NotAwaited(_, _, _, _)
ProcessFrom_NotAwaited(msg, i, rows, tr) ==
    IF i > Len(recipients)
    THEN [ pc |-> "done", ack |-> << "ok" >>, logs |-> rows, hook |-> None,
           parsed |-> msg, trace |-> tr ]
    ELSE LET r == ProcessStart(msg, recipients[i], rows,
                               FirstFree(LogIdNames, HeldLogIds(rows, tr)))
         IN  CASE r.kind = "returned" ->
                    ProcessFrom_NotAwaited(r.parsed, i + 1, r.logs,
                                           Append(tr, r.entry))
               [] r.kind = "threw" ->
                    [ pc |-> "done", ack |-> << "error" >>, logs |-> r.logs,
                      hook |-> None, parsed |-> r.parsed,
                      trace |-> Append(tr, r.entry) ]
               [] OTHER ->
                    [ pc |-> "http", ack |-> << "ok" >>, logs |-> r.logs,
                      hook |-> r.hook, parsed |-> r.parsed,
                      trace |-> Append(tr, r.entry) ]

\* handleIncomingEmail's loop from recipient i on, run until the next
\* suspension: the state the transaction is left in.  An exception that
\* leaves the loop reaches onData's catch, which calls back with an error;
\* the end of the loop reaches its then, which calls back with none.
RECURSIVE ProcessFrom(_, _, _, _)
ProcessFrom(msg, i, rows, tr) ==
    IF i > Len(recipients)
    THEN [ pc |-> "done", ack |-> << "ok" >>, logs |-> rows, hook |-> None,
           parsed |-> msg, trace |-> tr ]
    ELSE LET r == ProcessStart(msg, recipients[i], rows,
                               FirstFree(LogIdNames, HeldLogIds(rows, tr)))
         IN  CASE r.kind = "returned" ->
                    ProcessFrom(r.parsed, i + 1, r.logs, Append(tr, r.entry))
               [] r.kind = "threw" ->
                    [ pc |-> "done", ack |-> << "error" >>, logs |-> r.logs,
                      hook |-> None, parsed |-> r.parsed,
                      trace |-> Append(tr, r.entry) ]
               [] OTHER ->
                    [ pc |-> "http", ack |-> << >>, logs |-> r.logs,
                      hook |-> r.hook, parsed |-> r.parsed,
                      trace |-> Append(tr, r.entry) ]

\* onData's promise chain given the answer the loop led to:
\* handleIncomingEmail(...).then(() => callback()).catch(() =>
\* callback(new Error(...))).  An exception raised by callback() inside the
\* then handler rejects the promise the catch handler is attached to, which
\* invokes the callback again, with the error.
onData(ack, callbackRaises) ==
    IF ack = << "ok" >> /\ callbackRaises THEN << "ok", "error" >> ELSE ack

\* A handler that answers a message it could not parse as if it had been
\* delivered.
ParseFail_AnswersOk ==
    /\ pc = "parsing"
    /\ pc' = "done"
    /\ acks' = Append(acks, "ok")
    /\ UNCHANGED << reply, sigVars, dbVars, mailFrom, rcptTo, parsed, hook, rcptReply, trace >>

\* simpleParser rejects: handleIncomingEmail rethrows and onData answers
\* the transaction with callback(new Error('Failed to process email')).
ParseFail ==
    /\ pc = "parsing"
    /\ pc' = "done"
    /\ acks' = Append(acks, "error")
    /\ UNCHANGED << reply, sigVars, dbVars, mailFrom, rcptTo, parsed, hook, rcptReply, trace >>

\* simpleParser resolves: the loop over the recipients runs until a webhook
\* call is awaited, an exception leaves it, or it ends.
ParseOk(subject, callbackRaises) ==
    /\ pc = "parsing"
    /\ LET r == ProcessFrom(simpleParser(subject), 1, logs, trace)
       IN  /\ parsed' = Some(r.parsed)
           /\ pc' = r.pc
           /\ acks' = acks \o onData(r.ack, callbackRaises)
           /\ logs' = r.logs
           /\ hook' = r.hook
           /\ trace' = r.trace
    /\ UNCHANGED << reply, sigVars, hooks, customDomains, mailFrom, rcptTo, rcptReply >>

\* The try block once the awaited call settled: the value of
\* response.status is read for the log line before the success row is
\* written, so a resolved value that is no object raises a TypeError there;
\* an exception of the insert is one of the try block too.
TryBlock(msg, hk, o, rows, id) ==
    LET res == ofetch(o)
        data == LogData(msg, hk.id, "success", None, res.value.status)
        ins == create(rows, id, data)
    IN  IF ~ res.ok
        THEN [ threw |-> TRUE, error |-> res.error, logs |-> rows,
               written |-> << >> ]
        ELSE IF ~ res.value.defined
        THEN [ threw |-> TRUE,
               error |-> [ message |-> "Cannot read properties of undefined",
                           response |-> None ],
               logs |-> rows, written |-> << >> ]
        ELSE IF ~ ins.ok
        THEN [ threw |-> TRUE,
               error |-> [ message |-> "FOREIGN KEY constraint failed",
                           response |-> None ],
               logs |-> rows, written |-> << >> ]
        ELSE [ threw |-> FALSE, error |-> res.error, logs |-> ins.logs,
               written |-> << LogRow(id, data) >> ]

\* A catch block that logs the status text of the response, which a call
\* without a response does not have, in place of error.message.
CatchBlock_StatusText(msg, hk, error, rows, id) ==
    LET data == LogData(msg, hk.id, "error",
                        IF error.response = None THEN None ELSE Some("status"),
                        error.response)
        ins == create(rows, id, data)
    IN  [ threw |-> ~ ins.ok, error |-> error, logs |-> ins.logs,
          written |-> IF ins.ok THEN << LogRow(id, data) >> ELSE << >> ]

\* The catch block: the error row, with error.response?.status.
CatchBlock(msg, hk, error, rows, id) ==
    LET data == LogData(msg, hk.id, "error", Some(error.message), error.response)
        ins == create(rows, id, data)
    IN  [ threw |-> ~ ins.ok, error |-> error, logs |-> ins.logs,
          written |-> IF ins.ok THEN << LogRow(id, data) >> ELSE << >> ]

\* processEmailForRecipient from the point where the awaited webhook call
\* settles with outcome o.
ProcessResume(msg, hk, o, rows, id) ==
    LET t == TryBlock(msg, hk, o, rows, id)
    IN  IF t.threw THEN CatchBlock(msg, hk, t.error, t.logs, id) ELSE t

\* A client that repeats a failed request once, as ofetch does for GET.
retry_AsForGet(method) ==
    1

\* The retry option of the call: none is given, and ofetch's default is 0
\* for the methods with a payload and 1 for the others.
retry(method) ==
    IF method \in { "POST", "PUT", "PATCH", "DELETE" } THEN 0 ELSE 1

\* ofetch repeats a request that failed, with a status it holds to be
\* transient or without a response, while fewer than 1 + retry were made.
ShouldRetry(o, posts) ==
    /\ posts <= retry("POST")
    /\ \/ o.kind = "none"
       \/ o.status \in { 408, 409, 425, 429, 500, 502, 503, 504 }

\* The webhook call of the recipient in progress settles; the pipeline
\* writes its row and the loop goes on with the recipients that follow.
HttpDone(o, callbackRaises) ==
    /\ pc = "http"
    /\ LET i == Len(trace)
           p == ProcessResume(parsed[1], hook[1], o, logs,
                              FirstFree(LogIdNames, HeldLogIds(logs, trace)))
           entry == [ trace[i] EXCEPT !.call = "done", !.outcome = Some(o),
                                      !.rows = p.written, !.threw = p.threw ]
           tr == [ trace EXCEPT ![i] = entry ]
           r == IF p.threw
                THEN [ pc |-> "done", ack |-> << "error" >>, logs |-> p.logs,
                       hook |-> None, parsed |-> parsed[1], trace |-> tr ]
                ELSE ProcessFrom(parsed[1], i + 1, p.logs, tr)
       IN  IF ShouldRetry(o, trace[i].posts)
           THEN /\ trace' = [ trace EXCEPT ![i].posts = @ + 1 ]
                /\ UNCHANGED << pc, acks, logs, hook, parsed >>
           ELSE /\ parsed' = Some(r.parsed)
                /\ pc' = r.pc
                /\ acks' = acks \o onData(r.ack, callbackRaises)
                /\ logs' = r.logs
                /\ hook' = r.hook
                /\ trace' = r.trace
    /\ UNCHANGED << reply, sigVars, hooks, customDomains, mailFrom, rcptTo, rcptReply >>

Next ==
    \/ \E d \in NewDomains : AddDomain(d)
    \/ \E i \in DOMAIN DomainIdNames : VerifyDomain(DomainIdNames[i])
    \/ \E i \in DOMAIN DomainIdNames : DeleteDomain(DomainIdNames[i])
    \/ \E n \in HookNames, w \in Urls, s \in Secrets :
           CreateHook(n[1], n[2], w, s)
    \/ \E i \in DOMAIN HookIdNames, s \in PatchSecrets,
          e \in { None, Some(TRUE), Some(FALSE) } :
           UpdateHook(HookIdNames[i], s, e)
    \/ \E i \in DOMAIN HookIdNames : DeleteHook(HookIdNames[i])
    \/ \E a \in Senders : MailFrom(a)
    \/ \E a \in RcptAddrs : RcptTo(a)
    \/ Data
    \/ ParseFail
    \/ \E s \in Subjects, c \in CallbackRaises : ParseOk(s, c)
    \/ \E o \in HttpOutcomes, c \in CallbackRaises : HttpDone(o, c)

Spec ==
    Init /\ [][Next]_vars

(***************************************************************************)
(* The dispatch with every kind of message and secret: hooks with and      *)
(* without a secret, messages with and without a subject, addresses of the *)
(* configured domain, and a webhook endpoint that answers or does not.     *)
(***************************************************************************)
\* username and domain of POST /api/hooks.
DispatchHookNames ==
    { << << "a", "l" >>, DomainM >>, << << "b", "o" >>, DomainM >> }

\* webhookSecret of POST /api/hooks: left out, "", or a key.
DispatchSecrets ==
    { None, Some(<< >>), Some(<< "k" >>) }

\* webhookSecret of PATCH /api/hooks/:id: left out, or "".
DispatchPatchSecrets ==
    { None, Some(<< >>) }

\* parsed.subject: no Subject header, or "hi".
DispatchSubjects ==
    { None, Some(<< "h", "i" >>) }

\* Whether the SMTP library's callback raises when it is invoked without an
\* error: it does or does not.
DispatchCallbackRaises ==
    { FALSE, TRUE }

DispatchRcpts ==
    { Email(<< "a", "l" >>, << "M" >>), Email(<< "b", "o" >>, DomainM) }

DispatchOutcomes ==
    { [ kind |-> "response", status |-> 200,
        body |-> [ defined |-> TRUE, status |-> None ] ],
      NoResponse }

NextDispatch ==
    \/ \E n \in DispatchHookNames, w \in Urls, k \in DispatchSecrets :
           CreateHook(n[1], n[2], w, k)
    \/ \E i \in DOMAIN HookIdNames, k \in DispatchPatchSecrets,
          e \in { None, Some(TRUE), Some(FALSE) } :
           UpdateHook(HookIdNames[i], k, e)
    \/ \E i \in DOMAIN HookIdNames : DeleteHook(HookIdNames[i])
    \/ \E a \in Senders : MailFrom(a)
    \/ \E a \in DispatchRcpts : RcptTo(a)
    \/ Data
    \/ ParseFail
    \/ \E u \in DispatchSubjects, c \in DispatchCallbackRaises : ParseOk(u, c)
    \/ \E o \in DispatchOutcomes, c \in DispatchCallbackRaises : HttpDone(o, c)

SpecDispatch ==
    Init /\ [][NextDispatch]_vars

(***************************************************************************)
(* The signature on its own: a request is signed by triggerWebhook, body   *)
(* and header reach a receiver as sent or altered, and the receiver calls  *)
(* verifyWebhookSignature with the secret it holds.                        *)
(***************************************************************************)
\* Payloads handed to triggerWebhook.
SigEmails ==
    { emailData(simpleParser(u), Email(<< "s" >>, DomainO), t) :
        u \in DispatchSubjects,
        t \in { Email(<< "a", "l" >>, DomainM), Email(<< "b", "o" >>, DomainM) } }

\* webhook_secret of the hook: NULL or a key.
SigSecrets ==
    { None, Some(<< "k" >>), Some(<< "j" >>) }

\* Secrets a receiver verifies with.
VerifySecrets ==
    { << "k" >>, << "j" >>, << >> }

\* What a receiver may find in X-MailHook-Signature, given the header that
\* was sent: that header, none, an empty one, a digest cut short, a digest
\* with a digit added, a digest of the right length made without the key.
SigHeaders(signature) ==
    { signature, None, Some(<< >>),
      Some([ k \in 1 .. DigestLen |-> "0" ]) }
    \cup { Some(SubSeq(signature[i], 1, DigestLen - 1)) : i \in DOMAIN signature }
    \cup { Some(Append(signature[i], "0")) : i \in DOMAIN signature }

Sign(data, secret) ==
    /\ sent = None
    /\ sent' = Some([ secret |-> secret,
                      request |-> triggerWebhook("http://u", secret, data) ])
    /\ UNCHANGED << reply, dbVars, smtpVars, again, received, verified >>

\* Another dispatch, of the same payload and secret or of others.
SignAgain(data, secret) ==
    /\ sent # None
    /\ again = None
    /\ again' = Some([ secret |-> secret,
                       request |-> triggerWebhook("http://u", secret, data) ])
    /\ UNCHANGED << reply, dbVars, smtpVars, sent, received, verified >>

Receive(body, signature) ==
    /\ sent # None
    /\ received = None
    /\ signature \in SigHeaders(sent[1].request.signature)
    /\ received' = Some([ body |-> body, signature |-> signature ])
    /\ UNCHANGED << reply, dbVars, smtpVars, sent, again, verified >>

Verify(secret) ==
    /\ received # None
    /\ verified = None
    /\ verified' = Some(
           [ secret |-> secret,
             result |-> verifyWebhookSignature(received[1].body,
                                               received[1].signature, secret) ])
    /\ UNCHANGED << reply, dbVars, smtpVars, sent, again, received >>

NextSig ==
    \/ \E d \in SigEmails, k \in SigSecrets : Sign(d, k)
    \/ \E d \in SigEmails, k \in SigSecrets : SignAgain(d, k)
    \/ \E d \in SigEmails,
          h \in UNION { SigHeaders(triggerWebhook("http://u", k, e).signature) :
                          k \in SigSecrets, e \in SigEmails } :
           Receive(stringify(d), h)
    \/ \E k \in VerifySecrets : Verify(k)

SpecSig ==
    Init /\ [][NextSig]_vars

(***************************************************************************)
(* Web API: the hooks, with the responses.                                 *)
(***************************************************************************)
\* The eight bullets (U+2022) sent in place of a secret, written as stars.
Mask ==
    << "*", "*", "*", "*", "*", "*", "*", "*" >>

\* webhookSecret of the bodies of POST and PATCH /api/hooks: absent, empty
\* or a secret.
ApiSecrets ==
    { None, Some(<< >>), Some(<< "k" >>) }

\* formatEmailHook: the hook object of a row.
formatEmailHook(row) ==
    [ id |-> row.id,
      email |-> row.email,
      webhookUrl |-> row.webhook_url,
      webhookSecret |-> row.webhook_secret,
      isEnabled |-> row.is_enabled ]

\* { ...hook, webhookSecret: hook.webhookSecret ? mask : null }
Masked(hk) ==
    [ hk EXCEPT !.webhookSecret = IF @ = None THEN None ELSE Some(Mask) ]

\* A response: its status code and the hook objects of its body.
Reply(code, body) ==
    Some([ code |-> code, body |-> body ])

\* GET /api/hooks
ListHooks ==
    /\ reply' = Reply(200, { Masked(formatEmailHook(h)) : h \in hooks })
    /\ UNCHANGED << sigVars, dbVars, smtpVars >>

\* GET /api/hooks/:id
GetHook(id) ==
    /\ reply' = IF findById(id) = None THEN Reply(404, {})
                ELSE Reply(200, { Masked(formatEmailHook(findById(id)[1])) })
    /\ UNCHANGED << sigVars, dbVars, smtpVars >>

\* POST /api/hooks, with its response: the hook emailHooksRepo.create
\* returns is sent as it is.
PostHook(username, domain, webhookUrl, webhookSecret) ==
    LET email == Email(username, domain)
        row == [ id |-> FirstFree(HookIdNames, HeldHookIds),
                 email |-> email,
                 webhook_url |-> webhookUrl,
                 webhook_secret |-> SeqOrNull(webhookSecret),
                 is_enabled |-> TRUE ]
    IN  /\ Cardinality(hooks) < MaxHooks
        /\ IF domain \notin getAllowedDomains \/ ~ ValidUsername(username)
           THEN reply' = Reply(400, {}) /\ UNCHANGED hooks
           ELSE IF findByEmail(email) # None
           THEN reply' = Reply(409, {}) /\ UNCHANGED hooks
           ELSE /\ hooks' = hooks \cup { row }
                /\ reply' = Reply(201, { formatEmailHook(row) })
        /\ UNCHANGED << sigVars, customDomains, logs, smtpVars >>

\* PATCH /api/hooks/:id, with its response.
PatchHook(id, webhookSecret, isEnabled) ==
    /\ IF findById(id) = None
       THEN reply' = Reply(404, {}) /\ UNCHANGED hooks
       ELSE LET updatedHook == UpdatedRow(findById(id)[1], webhookSecret,
                                          isEnabled)
            IN  /\ hooks' = { IF h.id = id THEN updatedHook ELSE h :
                              h \in hooks }
                /\ reply' = Reply(200, { Masked(formatEmailHook(updatedHook)) })
    /\ UNCHANGED << sigVars, customDomains, logs, smtpVars >>

NextApi ==
    \/ \E n \in HookNames, w \in Urls, k \in ApiSecrets :
           PostHook(n[1], n[2], w, k)
    \/ \E i \in DOMAIN HookIdNames, k \in ApiSecrets,
          e \in { None, Some(TRUE), Some(FALSE) } :
           PatchHook(HookIdNames[i], k, e)
    \/ \E i \in DOMAIN HookIdNames : DeleteHook(HookIdNames[i])
    \/ \E i \in DOMAIN HookIdNames : GetHook(HookIdNames[i])
    \/ ListHooks

SpecApi ==
    Init /\ [][NextApi]_vars

(***************************************************************************)
(* Properties.  trace[i] is the pipeline run of the i-th accepted          *)
(* recipient; the rows it inserted are the Delivery Attempts it wrote.     *)
(***************************************************************************)
RowsOf(i) ==
    { trace[i].rows[j] : j \in DOMAIN trace[i].rows }

\* The transaction was answered after its message was parsed.
Finished ==
    pc = "done" /\ parsed # None

\* The webhook call of run i settled, with or without a response.
Called(i) ==
    trace[i].call = "done"

\* C1: when a transaction whose message was parsed is finished, the log
\* holds exactly one row written by it for each accepted recipient,
\* whatever the recipient's hook state.
C1_OneAttemptPerRecipient ==
    Finished =>
        \A i \in DOMAIN rcptTo :
            /\ i \in DOMAIN trace
            /\ Cardinality(RowsOf(i) \cap logs) = 1

\* C2: an address whose domain is not in the allow-set is rejected, is not
\* in the envelope and has no pipeline run; an address whose domain is in
\* the allow-set is accepted, and every accepted recipient is processed
\* when the message completes.
C2_RejectionIsLocal ==
    /\ rcptReply # None =>
           LET a == rcptReply[1].address
               allowed == Includes(allowedDomains, SplitAt1(toLowerCase(a))[1])
           IN  /\ rcptReply[1].accepted = allowed
               /\ allowed => \E i \in DOMAIN rcptTo : rcptTo[i] = a
               /\ ~ allowed => \A i \in DOMAIN rcptTo : rcptTo[i] # a
    /\ \A i \in DOMAIN rcptTo :
           Includes(allowedDomains, SplitAt1(toLowerCase(rcptTo[i]))[1])
    /\ \A i \in DOMAIN trace :
           i \in DOMAIN rcptTo /\ trace[i].to = toLowerCase(rcptTo[i])
    /\ Finished => \A i \in DOMAIN rcptTo : i \in DOMAIN trace

\* C3: RCPT TO is accepted exactly when the domain is, at that moment, a
\* configured domain or a verified custom domain.
C3_AdmissionUsesCurrentAllowSet ==
    rcptReply # None => (rcptReply[1].accepted <=> rcptReply[1].current)

\* C4: a recipient without a hook gets exactly one row with hook id
\* "unknown" and status not_found, no webhook call is made for it, and the
\* write succeeds: the row is in the log and the pipeline raises nothing.
C4_NotFoundIsLogged ==
    \A i \in DOMAIN trace :
        trace[i].hook = None =>
            /\ trace[i].call = "none"
            /\ ~ trace[i].threw
            /\ Len(trace[i].rows) = 1
            /\ trace[i].rows[1].hook_id = "unknown"
            /\ trace[i].rows[1].status = "not_found"
            /\ trace[i].rows[1] \in logs

\* C5: a recipient whose hook is disabled when its pipeline runs gets
\* exactly one row written, with status disabled and the hook's id, and no
\* webhook call is made for it.
C5_DisabledIsLoggedWithoutCall ==
    \A i \in DOMAIN trace :
        (trace[i].hook # None /\ ~ trace[i].hook[1].is_enabled) =>
            /\ trace[i].call = "none"
            /\ Len(trace[i].rows) = 1
            /\ trace[i].rows[1].status = "disabled"
            /\ trace[i].rows[1].hook_id = trace[i].hook[1].id

\* C5: a disabled hook was looked up and its row written.
C5_Witness ==
    \E i \in DOMAIN trace :
        /\ trace[i].hook # None
        /\ ~ trace[i].hook[1].is_enabled
        /\ Len(trace[i].rows) = 1

C7_SuccessCarriesHttpStatus ==
    \A i \in DOMAIN trace :
        \A j \in DOMAIN trace[i].rows :
            trace[i].rows[j].status = "success" =>
                trace[i].rows[j].webhook_status_code
                    = Some(trace[i].outcome[1].status)

C9_WebhookFailureIsLocal ==
    \A i \in DOMAIN trace :
        (Finished /\ Called(i) /\ ~ ofetch(trace[i].outcome[1]).ok) =>
            /\ acks = << "ok" >>
            /\ \A k \in DOMAIN rcptTo \ { i } :
                   k \in DOMAIN trace /\ Len(trace[k].rows) = 1

\* C10: a log write that raises does not fail the transaction and does not
\* keep the remaining recipients from being processed.
C10_LogWriteFailureIsNotFatal ==
    (Finished /\ \E i \in DOMAIN trace : trace[i].threw) =>
        /\ acks = << "ok" >>
        /\ \A k \in DOMAIN rcptTo : k \in DOMAIN trace

\* C11: a transaction is answered only when no pipeline of it is in
\* progress: no webhook call is outstanding and every pipeline that was
\* started has written its row or failed.  An answer without an error
\* comes after the pipelines of all accepted recipients; an answer with an
\* error comes after a failed parse or after the pipeline that failed.
C11_AckAfterPipelines ==
    acks # << >> =>
        /\ pc = "done"
        /\ hook = None
        /\ \A i \in DOMAIN trace :
               /\ trace[i].call # "pending"
               /\ Len(trace[i].rows) = 1 \/ trace[i].threw
        /\ acks[1] = "ok" =>
               \A i \in DOMAIN rcptTo : i \in DOMAIN trace /\ ~ trace[i].threw
        /\ acks[1] = "error" => (parsed = None \/ trace[Len(trace)].threw)

\* C11: a transaction with two webhook calls was answered after both.
C11_Witness ==
    /\ acks = << "ok" >>
    /\ Len(trace) = MaxRcpt
    /\ \A i \in DOMAIN trace : Called(i)

\* C12: when the message could not be parsed the transaction is answered
\* with an error, and nothing else happened: no pipeline ran (no lookup, no
\* webhook call) and the log holds no row.
C12_ParseFailureAbortsTransaction ==
    (pc = "done" /\ parsed = None) =>
        /\ acks = << "error" >>
        /\ trace = << >>
        /\ hook = None
        /\ logs = {}

\* C12: the parse failed for a message whose recipients have an enabled
\* hook.
C12_Witness ==
    /\ pc = "done"
    /\ parsed = None
    /\ acks = << "error" >>
    /\ Len(rcptTo) = MaxRcpt
    /\ \A i \in DOMAIN rcptTo :
           \E h \in hooks : h.email = recipients[i] /\ h.is_enabled

\* C13: whenever a pipeline starts for an accepted recipient while the
\* registry holds a hook whose email equals the recipient's address up to
\* letter case, the lookup of that pipeline returns a hook.
C13_CaseInsensitiveMatch ==
    [][ \A i \in DOMAIN trace' :
            (/\ i \notin DOMAIN trace
             /\ \E h \in hooks : toLowerCase(h.email) = toLowerCase(rcptTo[i]))
            => trace'[i].hook # None ]_vars

\* C14: the request of every webhook call carries the signature header
\* exactly when the secret of the hook it was made for is a non-empty
\* string, and the header then is the digest of the body under that secret.
C14_SignatureIffSecret ==
    \A i \in DOMAIN trace :
        trace[i].request # None =>
            LET secret == trace[i].hook[1].webhook_secret
                request == trace[i].request[1]
            IN  /\ request.signature # None
                       <=> (secret # None /\ secret # Some(<< >>))
                /\ request.signature # None =>
                       request.signature = Some(createHmac(secret[1], request.body))

\* C14: one transaction with a signed and an unsigned request.
C14_Witness ==
    \E i, k \in DOMAIN trace :
        /\ trace[i].request # None
        /\ trace[i].hook[1].webhook_secret = None
        /\ trace[i].request[1].signature = None
        /\ trace[k].request # None
        /\ trace[k].hook[1].webhook_secret # None
        /\ trace[k].request[1].signature # None

\* C15: when the receiver is handed the signature triggerWebhook attached,
\* verifyWebhookSignature returns true for the body that was sent and the
\* secret that signed it, and false when the body was altered or the
\* secret is another one.
C15_SignatureRoundTrip ==
    (/\ verified # None
     /\ sent[1].request.signature # None
     /\ received[1].signature = sent[1].request.signature) =>
        LET same == /\ received[1].body = sent[1].request.body
                    /\ verified[1].secret = sent[1].secret[1]
        IN  verified[1].result = IF same THEN "true" ELSE "false"

\* C15: a signature was verified against the body and the secret it was
\* made from.
C15_Witness ==
    /\ verified # None
    /\ sent[1].request.signature # None
    /\ received[1].signature = sent[1].request.signature
    /\ received[1].body = sent[1].request.body
    /\ verified[1].secret = sent[1].secret[1]
    /\ verified[1].result = "true"

\* C16: for a received signature whose length is not that of a digest, the
\* empty one included, verifyWebhookSignature returns false and raises
\* nothing.
C16_LengthMismatchIsFalse ==
    (/\ verified # None
     /\ received[1].signature # None
     /\ Len(received[1].signature[1]) # DigestLen) =>
        verified[1].result = "false"

\* C17: at most one POST is made for each accepted recipient of the
\* transaction: every pipeline run made at most one, whether or not the
\* call failed, and no recipient has two pipeline runs.
C17_SingleAttempt ==
    /\ Len(trace) <= Len(rcptTo)
    /\ \A i \in DOMAIN trace :
           /\ trace[i].posts <= 1
           /\ trace[i].call = "none" => trace[i].posts = 0
           /\ \A k \in DOMAIN trace : trace[k].to = trace[i].to => k = i

\* C17: a transaction ended after a webhook call that failed, without a
\* response or with an error status, with one POST made for it.
C17_Witness ==
    /\ Finished
    /\ \E i \in DOMAIN trace :
           /\ Called(i)
           /\ ~ ofetch(trace[i].outcome[1]).ok
           /\ trace[i].posts = 1

\* C18: no step removes or changes a row of the log: every row of the log
\* is, unchanged, a row of the log after the step.
C18_LogIsAppendOnly ==
    [][ logs \subseteq logs' ]_vars

\* C19: whatever was done to the registry while a webhook call was
\* outstanding, the pipeline that made the call writes its row when the
\* call settles and raises nothing, so that the transaction is not failed
\* by it.
C19_RegistryChangeDoesNotFailPipeline ==
    \A i \in DOMAIN trace :
        Called(i) =>
            /\ ~ trace[i].threw
            /\ Len(trace[i].rows) = 1
            /\ (Finished /\ i = Len(trace)) => acks # << "error" >>

\* C20: the parsed message is what every pipeline of the transaction was
\* handed and what it left behind: each run got the message as it is now,
\* every request body was made from it, and every row carries its subject.
C20_NormalizedEmailUnchanged ==
    \A i \in DOMAIN trace :
        /\ parsed # None
        /\ trace[i].msg = parsed[1]
        /\ trace[i].request # None =>
               trace[i].request[1].body
                   = stringify(emailData(parsed[1], mailFrom[1], trace[i].to))
        /\ \A j \in DOMAIN trace[i].rows :
               trace[i].rows[j].subject = SeqOrNull(parsed[1].subject)

\* C20: two recipients were dispatched from a message without a subject.
C20_Witness ==
    /\ Finished
    /\ parsed[1].subject = None
    /\ Len(trace) = MaxRcpt
    /\ \A i \in DOMAIN trace : Called(i) /\ Len(trace[i].rows) = 1

\* C21: the payload of every webhook call has the recipient the pipeline
\* runs for in `to`, each of its attachment entries has the fields
\* filename, contentType and size and no other, one entry for each
\* attachment of the message, and the payloads of two recipients of the
\* transaction are equal in every field but `to`.
C21_PayloadPerRecipient ==
    \A i \in DOMAIN trace :
        trace[i].request # None =>
            LET data == trace[i].request[1].data
            IN  /\ data.to = recipients[i]
                /\ Len(data.attachments) = Len(parsed[1].attachments)
                /\ \A n \in DOMAIN data.attachments :
                       /\ DOMAIN data.attachments[n]
                              = { "filename", "contentType", "size" }
                       /\ data.attachments[n].filename
                              = parsed[1].attachments[n].filename
                /\ \A k \in DOMAIN trace :
                       trace[k].request # None =>
                           [ trace[k].request[1].data EXCEPT !.to = << >> ]
                               = [ data EXCEPT !.to = << >> ]

\* C21: two recipients were sent the payload of a message with an
\* attachment.
C21_Witness ==
    /\ parsed # None
    /\ Len(parsed[1].attachments) >= 1
    /\ Len(trace) = MaxRcpt
    /\ \A i \in DOMAIN trace : trace[i].request # None

RecentLimit ==
    100

\* emailLogsRepo.findRecent: the rows of email_logs that JOIN a row of
\* email_hooks, with that row's email, the newest `limit` of them.  The
\* model holds no created_at: when there are more than `limit`, which are
\* returned is left open.
findRecent(limit) ==
    LET joined == { [ log |-> p[1], email |-> p[2].email ] :
                      p \in { q \in logs \X hooks : q[2].id = q[1].hook_id } }
    IN  IF Cardinality(joined) <= limit THEN joined
        ELSE CHOOSE part \in SUBSET joined : Cardinality(part) = limit

\* C23: every row a pipeline wrote is among the rows the recent-logs query
\* returns (the log of the model never holds more than the limit).
C23_WrittenRowsAreListed ==
    \A i \in DOMAIN trace :
        \A j \in DOMAIN trace[i].rows :
            \E r \in findRecent(RecentLimit) : r.log = trace[i].rows[j]

\* C24: the callback of onData is invoked once per transaction and not
\* before the transaction is over: never twice, and never once without and
\* once with an error.
C24_CallbackExactlyOnce ==
    /\ Len(acks) <= 1
    /\ pc = "done" <=> Len(acks) = 1

\* C25: every row of the log is well-formed: its status is success, error,
\* disabled or not_found; its hook_id is "unknown" exactly when its status
\* is not_found, and otherwise it was written by a run of the pipeline that
\* resolved a hook, whose id it holds; its webhook_status_code is null when
\* its status is not_found or disabled; its from_address is the envelope
\* sender of the transaction.
C25_LogRowsWellFormed ==
    \A r \in logs :
        /\ r.status \in { "success", "error", "disabled", "not_found" }
        /\ r.hook_id = "unknown" <=> r.status = "not_found"
        /\ \E i \in DOMAIN trace :
               /\ r \in RowsOf(i)
               /\ r.status # "not_found" =>
                      /\ trace[i].hook # None
                      /\ r.hook_id = trace[i].hook[1].id
        /\ r.status \in { "not_found", "disabled" } =>
               r.webhook_status_code = None
        /\ mailFrom # None
        /\ r.from_address = mailFrom[1]

\* C25: the log holds the row of a disabled hook and the row of a webhook
\* call, written by one transaction.
C25_Witness ==
    /\ \E r \in logs : r.status = "disabled" /\ r.webhook_status_code = None
    /\ \E r \in logs : r.status \in { "success", "error" } /\ r.hook_id # "unknown"
    /\ \A r \in logs : r.from_address = mailFrom[1]

\* C26: the registry holds at most one hook per email key, and every stored
\* email key is lowercase.
C26_RegistryKeysUniqueLowercase ==
    \A h \in hooks :
        /\ h.email = toLowerCase(h.email)
        /\ \A g \in hooks :
               toLowerCase(g.email) = toLowerCase(h.email) => g = h

\* C27: no response of the hook API (list, get, create, update) holds the
\* raw value of a webhook secret: each hook object of a response has no
\* secret or the mask in its place.
C27_NoRawSecretInResponse ==
    reply # None =>
        \A hk \in reply[1].body : hk.webhookSecret \in { None, Some(Mask) }

=============================================================================
